---- MODULE Spec2Model ----
(***************************************************************************)
(* Fill Aggregation Engine of the trading journal: a single pass over the  *)
(* time-sorted fills of a wallet that groups them, per coin, into          *)
(* round-trip trades (src/PLAN.md, Step 1.3, and spec.md section 4.1).     *)
(*                                                                         *)
(* Numbers.  Sizes and positions are counted in units of 1e-9, the flat     *)
(* threshold EPS, and the fills of the stream move a position in steps of  *)
(* two units: a position is either zero or clearly away from it.  A price  *)
(* is kept as the exact ratio value/size it is computed from, so that two  *)
(* prices are compared without rounding.                                   *)
(***************************************************************************)
EXTENDS Integers, Sequences, FiniteSets, TLC

\* ------------------------------------------------------------------ bounds
MaxFills == 3

\* ------------------------------------------------------- program constants
EPS == 1

\* ------------------------------------------------------------ input domain
\* the coins of the wallet, in the order their open trades are emitted
CoinOrder == <<"BTC", "ETH">>

Coins == {CoinOrder[i] : i \in 1..Len(CoinOrder)}

SizesOf(c) == IF c = "BTC" THEN {2, 4} ELSE {2}

PricesOf(c) == IF c = "BTC" THEN {100, 105} ELSE {50}

\* the position a coin holds before the first visible fill (the history of
\* BTC may start mid-position)
InitialPositionsOf(c) == IF c = "BTC" THEN {-2, 0} ELSE {0}

Dirs == {"Open Long", "Open Short", "Close Long", "Close Short"}

VARIABLES
    fills,          \* the fill list handed to the engine, in delivery order
    position,       \* the exchange's signed position per coin (environment)
    current_trade,  \* per coin: the accumulator of the trade being built
    trades,         \* the trades list of the pass
    diagnostics,    \* skip / flag diagnostics of the pass
    next_id,        \* next trade id of the pass
    phase,          \* "run" | "done" | "rerun" | "resorted"
    first,          \* result of the first pass, kept to compare a second pass
    input,          \* the fill list as handed to a later pass, before it is sorted
    list,           \* the trade array a caller hands to computeStats
    stats,          \* what the last computeStats call was given and returned
    provider,       \* TradeProvider: its trades, loading and error state
    requests,       \* the getTrades / refreshTrades requests issued, in order
    journal,        \* JournalPage: the trades it is given, its filters, sort and page
    dateFilter      \* DateFilter: its props, its selection and what it last applied

vars == <<fills, position, current_trade, trades, diagnostics, next_id, phase, first,
          input, list, stats, provider, requests, journal, dateFilter>>

\* ------------------------------------------------------------------ helpers
Abs(x) == IF x < 0 THEN -x ELSE x

Max2(a, b) == IF a >= b THEN a ELSE b

Min2(a, b) == IF a <= b THEN a ELSE b

Null == <<>>

Some(v) == <<v>>

Last(s) == s[Len(s)]

\* a price as the exact quotient num / den
Ratio(num, den) == [num |-> num, den |-> den]

RatioEq(a, b) == a.num * b.den = b.num * a.den

\* ----------------------------------------------------------------- fills
\* fills table: tid, coin, px, sz, side, dir, time, start_position,
\* closed_pnl, fee.  px, sz, start_position, closed_pnl and fee are TEXT in
\* the table; bad is the set of required fields of the row that are missing
\* or do not parse.
Fill(tid, coin, px, sz, side, dir, time, sp, pnl, fee, bad) ==
    [tid |-> tid, coin |-> coin, px |-> px, sz |-> sz, side |-> side,
     dir |-> dir, time |-> time, start_position |-> sp,
     closed_pnl |-> pnl, fee |-> fee, bad |-> bad]

IsOpen(f) == f.dir \in {"Open Long", "Open Short"}

IsClose(f) == f.dir \in {"Close Long", "Close Short"}

Malformed(f) == f.bad # {}

\* new_position = float(fill.startPosition) + (fill.sz if fill.side == 'B' else -fill.sz)
NewPosition(f) == f.start_position + (IF f.side = "B" THEN f.sz ELSE -f.sz)

\* faulty variant: the threshold with the wrong sign, so no position is ever flat
IsFlatNever(p) == Abs(p) < -EPS

\* faulty variant: every closing fill is taken to flatten the position
IsFlatAnyClose(p) == TRUE

\* abs(new_position) < 1e-9
IsFlat(p) == Abs(p) < EPS

\* ---------------------------------------------------------- accumulator
None ==
    [active |-> FALSE, coin |-> "", side |-> "", open_time |-> 0,
     entry_value |-> 0, entry_size |-> 0, exit_value |-> 0, exit_size |-> 0,
     realized_pnl |-> 0, fees |-> 0, max_px |-> 0, min_px |-> 0,
     mae |-> Ratio(0, 1), mfe |-> Ratio(0, 1), fill_ids |-> <<>>]

\* faulty variant: the new trade does not record its open time
NewTradeNoOpenTime(f, np) ==
    [None EXCEPT !.active = TRUE, !.coin = f.coin,
                 !.side = IF np > 0 THEN "B" ELSE "A",
                 !.max_px = f.px, !.min_px = f.px]

\* current_trade = new trade (record open time, side, etc.)
NewTrade(f, np) ==
    [None EXCEPT !.active = TRUE, !.coin = f.coin,
                 !.side = IF np > 0 THEN "B" ELSE "A",
                 !.open_time = f.time, !.max_px = f.px, !.min_px = f.px]

\* faulty variant: the entry price as the plain mean of the fill prices
OpenAccumulateUnweighted(t, px, sz) ==
    [t EXCEPT !.entry_value = @ + px, !.entry_size = @ + 1]

\* current_trade.entry_value += fill.px * fill.sz ; entry_size += fill.sz
OpenAccumulate(t, px, sz) ==
    [t EXCEPT !.entry_value = @ + px * sz, !.entry_size = @ + sz]

\* faulty variant: the closing fill's fee is not added to the trade
CloseAccumulatePnlOnly(t, f) ==
    [t EXCEPT !.realized_pnl = @ + f.closed_pnl]

\* current_trade.realized_pnl += fill.closedPnl ; fees += fill.fee
CloseAccumulate(t, f) ==
    [t EXCEPT !.realized_pnl = @ + f.closed_pnl, !.fees = @ + f.fee]

\* exit value / exit size of the closing fills
ExitAccumulate(t, px, sz) ==
    [t EXCEPT !.exit_value = @ + px * sz, !.exit_size = @ + sz]

\* Track max/min price for MAE/MFE
TrackPrice(t, f) ==
    [t EXCEPT !.max_px = Max2(@, f.px), !.min_px = Min2(@, f.px)]

\* the larger of two quotients with positive denominators
RatioMax(a, b) == IF a.num * b.den >= b.num * a.den THEN a ELSE b

\* faulty variant: the sign convention of a long trade is used for a short
\* trade as well
TrackExcursionAsLong(t, f) ==
    LET rise == f.px * t.entry_size - t.entry_value
        fav  == Ratio(rise, t.entry_value)
        adv  == Ratio(-rise, t.entry_value)
    IN  [t EXCEPT !.mfe = IF fav.num > 0 THEN RatioMax(@, fav) ELSE @,
                  !.mae = IF adv.num > 0 THEN RatioMax(@, adv) ELSE @]

\* the fill's price against the current average entry e of the trade, as a
\* fraction of e: (px - e) / e = (px * entry_size - entry_value) / entry_value.
\* A long trade counts a rise as favorable and a drop as adverse, a short
\* trade the other way round; each excursion keeps its largest value.
TrackExcursion(t, f) ==
    LET rise == f.px * t.entry_size - t.entry_value
        up   == Ratio(rise, t.entry_value)
        down == Ratio(-rise, t.entry_value)
        fav  == IF t.side = "B" THEN up ELSE down
        adv  == IF t.side = "B" THEN down ELSE up
    IN  [t EXCEPT !.mfe = IF fav.num > 0 THEN RatioMax(@, fav) ELSE @,
                  !.mae = IF adv.num > 0 THEN RatioMax(@, adv) ELSE @]

\* Track max/min price for MAE/MFE: the extreme prices and the excursions
Track(t, f) == TrackExcursion(TrackPrice(t, f), f)

AddFillId(t, f) == [t EXCEPT !.fill_ids = Append(@, f.tid)]

\* Finalize trade: compute avg entry, exit, hold time, MAE, MFE
Finalize(t, f, id) ==
    [id |-> id, coin |-> t.coin, side |-> t.side,
     entry_px |-> Ratio(t.entry_value, t.entry_size),
     exit_px |-> Some(Ratio(t.exit_value, t.exit_size)),
     size |-> t.entry_size, pnl |-> t.realized_pnl, fees |-> t.fees,
     open_time |-> t.open_time, close_time |-> Some(f.time),
     hold_ms |-> Some(f.time - t.open_time),
     max_px |-> t.max_px, min_px |-> t.min_px,
     mae |-> Some(t.mae), mfe |-> Some(t.mfe), fill_ids |-> t.fill_ids]

\* a still-open position: the "open" trade with null exit fields
OpenTrade(t, id) ==
    [id |-> id, coin |-> t.coin, side |-> t.side,
     entry_px |-> Ratio(t.entry_value, t.entry_size),
     exit_px |-> Null,
     size |-> t.entry_size, pnl |-> t.realized_pnl, fees |-> t.fees,
     open_time |-> t.open_time, close_time |-> Null, hold_ms |-> Null,
     max_px |-> t.max_px, min_px |-> t.min_px,
     mae |-> Null, mfe |-> Null, fill_ids |-> t.fill_ids]

\* the resulting position lies on the other side of zero from the trade
Flipped(t, np) == (t.side = "B" /\ np < 0) \/ (t.side = "A" /\ np > 0)

Diagnostic(kind, f) == [kind |-> kind, tid |-> f.tid]

\* ------------------------------------------------------------ the engine
\* The state a pass threads through its fills.
EngineState(ct, ts, ds, id) ==
    [current_trade |-> ct, trades |-> ts, diagnostics |-> ds, next_id |-> id]

\* faulty variant: the accumulators of the previous pass are still there
KeepCurrentTrade(prev) == prev

\* For each coin's fills: current_trade = None
NoCurrentTrade(prev) == [c \in Coins |-> None]

\* each invocation returns a fresh trade list
NewRun(prev) == EngineState(NoCurrentTrade(prev.current_trade), <<>>, <<>>, 1)

\* faulty variant: a malformed fill aborts what the pass was building
OnMalformedAborts(st, f) ==
    [st EXCEPT !.diagnostics = Append(@, Diagnostic("MalformedFill", f)),
               !.current_trade = [c \in Coins |-> None]]

\* a malformed fill is skipped and the rejection recorded under its fill id
OnMalformed(st, f) ==
    [st EXCEPT !.diagnostics = Append(@, Diagnostic("MalformedFill", f))]

\* faulty variant: one accumulator for the whole list instead of one per coin:
\* an opening fill scales into whatever trade is being built
OnOpenAnyCoin(st, f) ==
    LET busy == {c \in Coins : st.current_trade[c].active}
        cur  == IF busy = {} THEN None
                ELSE st.current_trade[CHOOSE c \in busy : TRUE]
        base == IF cur.active THEN cur ELSE NewTrade(f, NewPosition(f))
        acc  == Track(OpenAccumulate(AddFillId(base, f), f.px, f.sz), f)
    IN  [st EXCEPT !.current_trade[f.coin] = acc]

\* if fill.dir starts with "Open"
OnOpen(st, f) ==
    LET cur  == st.current_trade[f.coin]
        base == IF cur.active THEN cur ELSE NewTrade(f, NewPosition(f))
        acc  == Track(OpenAccumulate(AddFillId(base, f), f.px, f.sz), f)
    IN  [st EXCEPT !.current_trade[f.coin] = acc]

\* if current_trade is None: skip (orphan close)
OnOrphanClose(st, f) ==
    [st EXCEPT !.diagnostics = Append(@, Diagnostic("OrphanClose", f))]

\* position flip: the fresh accumulator for the residual size on the new
\* side, starting at this fill's price and timestamp
FlipOpen(f, np) ==
    Track(OpenAccumulate(AddFillId(NewTrade(f, np), f), f.px, Abs(np)), f)

\* faulty variant: current_trade is not cleared after the trade is saved
OnCloseKeepsTrade(st, f) ==
    LET cur == st.current_trade[f.coin]
        np  == NewPosition(f)
        acc == Track(
                 ExitAccumulate(CloseAccumulate(AddFillId(cur, f), f), f.px, f.sz), f)
    IN  IF IsFlat(np) \/ Flipped(cur, np)
        THEN [st EXCEPT !.trades = Append(@, Finalize(acc, f, st.next_id)),
                        !.next_id = @ + 1,
                        !.current_trade[f.coin] = acc]
        ELSE [st EXCEPT !.current_trade[f.coin] = acc]

\* faulty variant: the close branch without the flip: a closing fill that crosses
\* zero is accumulated like a partial close
OnCloseNoFlip(st, f) ==
    LET cur == st.current_trade[f.coin]
        np  == NewPosition(f)
        acc == Track(
                 ExitAccumulate(CloseAccumulate(AddFillId(cur, f), f), f.px, f.sz), f)
    IN  IF IsFlat(np)
        THEN [st EXCEPT !.trades = Append(@, Finalize(acc, f, st.next_id)),
                        !.next_id = @ + 1,
                        !.current_trade[f.coin] = None]
        ELSE [st EXCEPT !.current_trade[f.coin] = acc]

\* if fill.dir starts with "Close" (with a current trade)
OnClose(st, f) ==
    LET cur     == st.current_trade[f.coin]
        np      == NewPosition(f)
        flip    == ~IsFlat(np) /\ Flipped(cur, np)
        closing == IF flip THEN f.sz - Abs(np) ELSE f.sz
        acc     == Track(
                     ExitAccumulate(CloseAccumulate(AddFillId(cur, f), f),
                                    f.px, closing), f)
        closed  == [st EXCEPT !.trades = Append(@, Finalize(acc, f, st.next_id)),
                              !.next_id = @ + 1]
    IN  IF IsFlat(np)
        THEN [closed EXCEPT !.current_trade[f.coin] = None]
        ELSE IF flip
        THEN [closed EXCEPT !.current_trade[f.coin] = FlipOpen(f, np)]
        ELSE [st EXCEPT !.current_trade[f.coin] = acc]

\* faulty variant: the close branch is taken without the current_trade is None test
RouteNoOrphanSkip(st, f) ==
    IF IsOpen(f) THEN OnOpen(st, f) ELSE OnClose(st, f)

\* for fill in fills: the "Open" branch, the orphan skip, the "Close" branch
Route(st, f) ==
    IF IsOpen(f) THEN OnOpen(st, f)
    ELSE IF ~st.current_trade[f.coin].active THEN OnOrphanClose(st, f)
    ELSE OnClose(st, f)

\* one fill of the pass: a malformed fill is rejected before it is routed
Step(st, f) == IF Malformed(f) THEN OnMalformed(st, f) ELSE Route(st, f)

\* After processing all fills, any accumulator still active is emitted as
\* an open trade.
RECURSIVE EmitOpen(_, _)
EmitOpen(st, i) ==
    IF i > Len(CoinOrder) THEN st
    ELSE LET t == st.current_trade[CoinOrder[i]]
         IN  IF t.active
             THEN EmitOpen([st EXCEPT !.trades = Append(@, OpenTrade(t, st.next_id)),
                                      !.next_id = @ + 1], i + 1)
             ELSE EmitOpen(st, i + 1)

RECURSIVE Fold(_, _, _)
Fold(st, fs, i) == IF i > Len(fs) THEN st ELSE Fold(Step(st, fs[i]), fs, i + 1)

\* one whole pass over a fill list
Aggregate(st0, fs) == EmitOpen(Fold(st0, fs, 1), 1)

\* the place of f in a list already sorted by time: behind every fill that is
\* not later than f
RECURSIVE InsertByTime(_, _)
InsertByTime(sorted, f) ==
    IF sorted = <<>> \/ Last(sorted).time <= f.time THEN Append(sorted, f)
    ELSE Append(InsertByTime(SubSeq(sorted, 1, Len(sorted) - 1), f), Last(sorted))

\* faulty variant: the fills are aggregated in the order they were handed in
NoSort(fs) == fs

\* Sort fills by time ascending: fills of one timestamp keep their order
RECURSIVE SortByTime(_)
SortByTime(fs) ==
    IF fs = <<>> THEN <<>>
    ELSE InsertByTime(SortByTime(SubSeq(fs, 1, Len(fs) - 1)), Last(fs))

\* ----------------------------------------------------- the fill stream
\* What the exchange delivers next: tid is the place in the stream, the
\* timestamp never runs backwards, start_position is the position before
\* the fill and the dir tag agrees with it.  closedPnl is the exchange's
\* own figure (here against a cost basis of 102 for BTC, 50 for ETH) and
\* is 0 on opening fills; the fee is charged on every fill.
Clock == IF fills = <<>> THEN 0 ELSE Last(fills).time

SideOf(dir) == IF dir \in {"Open Long", "Close Short"} THEN "B" ELSE "A"

DirAllowed(dir, p) ==
    \/ dir = "Open Long" /\ p >= 0
    \/ dir = "Open Short" /\ p <= 0
    \/ dir = "Close Long" /\ p > 0
    \/ dir = "Close Short" /\ p < 0

ClosedPnl(c, dir, px, sz) ==
    LET basis == IF c = "BTC" THEN 102 ELSE 50
    IN  IF dir = "Close Long" THEN (px - basis) * sz
        ELSE IF dir = "Close Short" THEN (basis - px) * sz
        ELSE 0

FeeOf(sz) == sz

\* the signed change of the exchange's position a fill makes
Delta(f) == IF f.dir \in {"Open Long", "Close Short"} THEN f.sz ELSE -f.sz

GoodFills ==
    { Fill(Len(fills) + 1, c, px, sz, SideOf(dir), dir, Clock + dt, position[c],
           ClosedPnl(c, dir, px, sz), FeeOf(sz), {}) :
        c \in Coins, px \in UNION {PricesOf(d) : d \in Coins},
        sz \in UNION {SizesOf(d) : d \in Coins}, dir \in Dirs, dt \in {0, 1} }

\* a row whose px text does not parse
BadFills ==
    { Fill(Len(fills) + 1, c, 0, sz, "B", "Open Long", Clock, position[c], 0,
           FeeOf(sz), {"px"}) : c \in Coins, sz \in SizesOf("ETH") }

NextFills ==
    { f \in GoodFills : /\ f.px \in PricesOf(f.coin)
                        /\ f.sz \in SizesOf(f.coin)
                        /\ DirAllowed(f.dir, position[f.coin]) }
    \cup BadFills

Here == EngineState(current_trade, trades, diagnostics, next_id)

Install(st) ==
    /\ current_trade' = st.current_trade
    /\ trades' = st.trades
    /\ diagnostics' = st.diagnostics
    /\ next_id' = st.next_id

NoResult == [trades |-> <<>>, diagnostics |-> <<>>]

\* TradeProvider as it is mounted: useState([]), useState(true), useState(null)
ProviderAtMount == [trades |-> <<>>, loading |-> TRUE, error |-> Null]


Init ==
    /\ fills = <<>>
    /\ position \in { p \in [Coins -> UNION {InitialPositionsOf(c) : c \in Coins}] :
                         \A c \in Coins : p[c] \in InitialPositionsOf(c) }
    /\ current_trade = [c \in Coins |-> None]
    /\ trades = <<>>
    /\ diagnostics = <<>>
    /\ next_id = 1
    /\ phase = "run"
    /\ first = NoResult
    /\ input = <<>>
    /\ list = <<>>
    /\ stats = Null
    /\ provider = ProviderAtMount
    /\ requests = <<>>
    /\ journal = Null
    /\ dateFilter = Null

\* the pass takes the next fill of the stream
ProcessFill ==
    /\ phase = "run"
    /\ Len(fills) < MaxFills
    /\ \E f \in NextFills :
          /\ fills' = Append(fills, f)
          /\ position' = IF Malformed(f) THEN position
                          ELSE [position EXCEPT ![f.coin] = @ + Delta(f)]
          /\ Install(Step(Here, f))
    /\ UNCHANGED <<phase, first, input, list, stats, provider, requests, journal, dateFilter>>

\* the stream ends: still-open positions are emitted and the pass returns
EndOfStream ==
    /\ phase = "run"
    /\ Install(EmitOpen(Here, 1))
    /\ first' = [trades |-> trades', diagnostics |-> diagnostics']
    /\ phase' = "done"
    /\ UNCHANGED <<fills, position, input, list, stats, provider, requests, journal, dateFilter>>

\* the engine is run a second time on the same fill list
Rerun ==
    /\ phase = "done"
    /\ Install(Aggregate(NewRun(Here), fills))
    /\ phase' = "rerun"
    /\ UNCHANGED <<fills, position, first, input, list, stats, provider, requests,
                   journal, dateFilter>>

Next == ProcessFill \/ EndOfStream \/ Rerun

Spec == Init /\ [][Next]_vars

\* ------------------------------------------------ a pass at one price a coin
\* the rows whose price, where it parses, is the lowest of their coin
OnePriceFills ==
    { f \in NextFills : f.bad = {} => \A px \in PricesOf(f.coin) : f.px <= px }

ProcessOnePriceFill ==
    /\ phase = "run"
    /\ Len(fills) < MaxFills
    /\ \E f \in OnePriceFills :
          /\ fills' = Append(fills, f)
          /\ position' = IF Malformed(f) THEN position
                          ELSE [position EXCEPT ![f.coin] = @ + Delta(f)]
          /\ Install(Step(Here, f))
    /\ UNCHANGED <<phase, first, input, list, stats, provider, requests, journal, dateFilter>>

NextOnePrice == ProcessOnePriceFill \/ EndOfStream

SpecOnePrice == Init /\ [][NextOnePrice]_vars

\* ------------------------------------------------- a pass on unsorted input
\* the length of the streams that are handed over out of order
MaxUnsorted == 2

\* the stored fills with the fills at places i and j exchanged
Swapped(fs, i, j) ==
    [k \in 1..Len(fs) |-> IF k = i THEN fs[j] ELSE IF k = j THEN fs[i] ELSE fs[k]]

\* The stored fills are handed to the engine with two fills of one coin out of
\* time order; the pass sorts what it is given and aggregates it.
AggregateUnsorted ==
    /\ phase = "done"
    /\ \E i, j \in 1..Len(fills) :
          /\ i < j
          /\ fills[i].coin = fills[j].coin
          /\ fills[i].time < fills[j].time
          /\ input' = Swapped(fills, i, j)
          /\ Install(Aggregate(NewRun(Here), SortByTime(input')))
    /\ phase' = "resorted"
    /\ UNCHANGED <<fills, position, first, list, stats, provider, requests, journal, dateFilter>>

\* the first pass over a stream of at most MaxUnsorted fills
ProcessShortStream == Len(fills) < MaxUnsorted /\ ProcessFill

NextUnsorted == ProcessShortStream \/ EndOfStream \/ AggregateUnsorted

SpecUnsorted == Init /\ [][NextUnsorted]_vars

\* ------------------------------------------------------ JavaScript numbers
\* A number of computeStats is the exact quotient num / den with den > 0;
\* den = 0 marks the values that are not finite: NaN (num = 0), Infinity
\* (num = 1) and -Infinity (num = -1).  The trades' pnl and fees are whole
\* amounts, so no sum or quotient below is rounded.
Num(n) == Ratio(n, 1)

NaN == Ratio(0, 0)

Infinity(s) == Ratio(s, 0)

Sgn(n) == IF n > 0 THEN 1 ELSE IF n < 0 THEN -1 ELSE 0

IsNaN(x) == x.den = 0 /\ x.num = 0

Finite(x) == x.den # 0

\* a + b
Plus(a, b) ==
    IF IsNaN(a) \/ IsNaN(b) THEN NaN
    ELSE IF a.den = 0 /\ b.den = 0 THEN (IF a.num = b.num THEN a ELSE NaN)
    ELSE IF a.den = 0 THEN a
    ELSE IF b.den = 0 THEN b
    ELSE Ratio(a.num * b.den + b.num * a.den, a.den * b.den)

\* a - b
Minus(a, b) == Plus(a, Ratio(-b.num, b.den))

\* a * b
Times(a, b) ==
    IF IsNaN(a) \/ IsNaN(b) THEN NaN
    ELSE IF a.den = 0 \/ b.den = 0
         THEN (IF a.num = 0 \/ b.num = 0 THEN NaN
               ELSE Infinity(Sgn(a.num) * Sgn(b.num)))
    ELSE Ratio(a.num * b.num, a.den * b.den)

\* a / b: 0 / 0 is NaN, x / 0 is an infinity
Over(a, b) ==
    IF IsNaN(a) \/ IsNaN(b) THEN NaN
    ELSE IF b.den = 0 THEN (IF a.den = 0 THEN NaN ELSE Num(0))
    ELSE IF a.den = 0 THEN Infinity(a.num * (IF b.num < 0 THEN -1 ELSE 1))
    ELSE IF b.num = 0 THEN (IF a.num = 0 THEN NaN ELSE Infinity(Sgn(a.num)))
    ELSE Ratio(a.num * b.den * Sgn(b.num), a.den * Abs(b.num))

\* a > b, false when either is NaN
Greater(a, b) ==
    /\ ~IsNaN(a) /\ ~IsNaN(b)
    /\ IF a.den = 0 /\ b.den = 0 THEN a.num > b.num
       ELSE IF a.den = 0 THEN a.num > 0
       ELSE IF b.den = 0 THEN b.num < 0
       ELSE a.num * b.den > b.num * a.den

\* Math.abs
MathAbs(x) == Ratio(Abs(x.num), x.den)

\* Math.sqrt(x), kept as the radicand: the value is the non-negative root of
\* sq, NaN when x is NaN or negative
MathSqrt(x) == [sq |-> IF IsNaN(x) \/ x.num < 0 THEN NaN ELSE x]

\* faulty variant: the root is used as it comes, without the || 1
NoGuard(r) == r

\* r || 1: a root that is NaN or 0 is replaced by 1
OrOne(r) ==
    IF IsNaN(r.sq) \/ (Finite(r.sq) /\ r.sq.num = 0) THEN MathSqrt(Num(1)) ELSE r

\* (m / r) * Math.sqrt(k) for roots r: the value sgn * root of sq
OverRootTimesRoot(m, r, k) ==
    LET sq == Times(Over(Times(m, m), r.sq), k.sq)
    IN  [sgn |-> IF IsNaN(sq) THEN 0 ELSE Sgn(m.num), sq |-> sq]

\* ------------------------------------------------------------ computeStats
\* milliseconds of a UTC day, the unit of toISOString().slice(0, 10)
DayMs == 86400000

\* annualisation: Math.sqrt(252)
TradingDays == 252

\* new Date(t.open_time).toISOString().slice(0, 10): the UTC calendar day,
\* kept as the number of the day
DayKey(ms) == ms \div DayMs

RECURSIVE Sum(_)
Sum(s) == IF s = <<>> THEN 0 ELSE Head(s) + Sum(Tail(s))

RECURSIVE SumNum(_)
SumNum(s) == IF s = <<>> THEN Num(0) ELSE Plus(SumNum(SubSeq(s, 1, Len(s) - 1)), Last(s))

PnlOf(ts) == [i \in 1..Len(ts) |-> ts[i].pnl]

FeesOf(ts) == [i \in 1..Len(ts) |-> ts[i].fees]

\* faulty variant: a trade that broke even counts as a win
winsOrEven(ts) == SelectSeq(ts, LAMBDA t : t.pnl >= 0)

wins(ts) == SelectSeq(ts, LAMBDA t : t.pnl > 0)

losses(ts) == SelectSeq(ts, LAMBDA t : t.pnl < 0)

totalPnl(ts) == Sum(PnlOf(ts))

totalFees(ts) == Sum(FeesOf(ts))

netPnl(ttlPnl, ttlFees) == ttlPnl - ttlFees

winRate(ws, ts) ==
    IF Len(ts) # 0 THEN Times(Over(Num(Len(ws)), Num(Len(ts))), Num(100)) ELSE Num(0)

avgWin(ws) ==
    IF Len(ws) # 0 THEN Over(Num(Sum(PnlOf(ws))), Num(Len(ws))) ELSE Num(0)

avgLoss(ls) ==
    IF Len(ls) # 0 THEN MathAbs(Over(Num(Sum(PnlOf(ls))), Num(Len(ls)))) ELSE Num(0)

totalWinPnl(ws) == Num(Sum(PnlOf(ws)))

totalLossPnl(ls) == MathAbs(Num(Sum(PnlOf(ls))))

\* faulty variant: the quotient is taken even without a losing trade
profitFactorUnguarded(winPnl, lossPnl) == Over(winPnl, lossPnl)

profitFactor(winPnl, lossPnl) ==
    IF Greater(lossPnl, Num(0)) THEN Over(winPnl, lossPnl) ELSE Num(0)

avgRR(aw, al) == IF Greater(al, Num(0)) THEN Over(aw, al) ELSE Num(0)

\* faulty variant: the percentage is used as if it were the fraction
expectancyOfPercent(wr, aw, al) ==
    Minus(Times(wr, aw), Times(Minus(Num(1), wr), al))

expectancy(wr, aw, al) ==
    Minus(Times(Over(wr, Num(100)), aw),
          Times(Minus(Num(1), Over(wr, Num(100))), al))

\* dailyMap[k] = (dailyMap[k] || 0) + t.pnl, the buckets in the order their
\* days first appear in the array
RECURSIVE dailyMap(_)
dailyMap(ts) ==
    IF ts = <<>> THEN <<>>
    ELSE LET m == dailyMap(SubSeq(ts, 1, Len(ts) - 1))
             t == Last(ts)
             k == DayKey(t.open_time)
         IN  IF \E i \in 1..Len(m) : m[i].k = k
             THEN [i \in 1..Len(m) |->
                     IF m[i].k = k THEN [m[i] EXCEPT !.v = @ + t.pnl] ELSE m[i]]
             ELSE Append(m, [k |-> k, v |-> 0 + t.pnl])

\* Object.values(dailyMap)
dailyRets(m) == [i \in 1..Len(m) |-> m[i].v]

meanRet(rets) ==
    IF Len(rets) # 0 THEN Over(Num(Sum(rets)), Num(Len(rets))) ELSE Num(0)

stdRet(rets, mean) ==
    LET dev == [i \in 1..Len(rets) |->
                  Times(Minus(Num(rets[i]), mean), Minus(Num(rets[i]), mean))]
    IN  OrOne(MathSqrt(Over(SumNum(dev), Num(Len(rets)))))

sharpe(mean, std) == OverRootTimesRoot(mean, std, MathSqrt(Num(TradingDays)))

downRets(rets) == SelectSeq(rets, LAMBDA v : v < 0)

downStd(down, rets) ==
    OrOne(MathSqrt(Over(Num(Sum([i \in 1..Len(down) |-> down[i] * down[i]])),
                        Num(Len(rets)))))

sortino(mean, dstd) == OverRootTimesRoot(mean, dstd, MathSqrt(Num(TradingDays)))

\* the place of t in an array already sorted by open_time: behind every
\* trade that did not open later (Array.prototype.sort is stable)
RECURSIVE InsertByOpenTime(_, _)
InsertByOpenTime(s, t) ==
    IF s = <<>> \/ Last(s).open_time - t.open_time <= 0 THEN Append(s, t)
    ELSE Append(InsertByOpenTime(SubSeq(s, 1, Len(s) - 1), t), Last(s))

\* sort((a, b) => a.open_time - b.open_time)
RECURSIVE sorted(_)
sorted(ts) ==
    IF ts = <<>> THEN <<>>
    ELSE InsertByOpenTime(sorted(SubSeq(ts, 1, Len(ts) - 1)), Last(ts))

\* faulty variant: trades.sort(...) without the copy sorts the caller's array
SortInPlace(ts) == LET s == sorted(ts) IN [array |-> s, sorted |-> s]

\* const sorted = [...trades].sort(...): what the statement leaves in the
\* caller's array, and the sorted copy
SortCopy(ts) == [array |-> ts, sorted |-> sorted(ts)]

\* faulty variant: the running pnl without the fees
GrossOf(t) == t.pnl

\* runPnl += t.pnl - t.fees
NetOf(t) == t.pnl - t.fees

RECURSIVE Drawdown(_, _, _, _, _)
Drawdown(s, i, peak, maxdd, runPnl) ==
    IF i > Len(s) THEN maxdd
    ELSE LET r  == runPnl + NetOf(s[i])
             p  == IF r > peak THEN r ELSE peak
             dd == p - r
         IN  Drawdown(s, i + 1, p, IF dd > maxdd THEN dd ELSE maxdd, r)

\* let peak = 0, maxDD = 0, runPnl = 0; sorted.forEach(...)
maxDD(srt) == Drawdown(srt, 1, 0, 0, 0)

\* trades.filter(t => t.hold_ms && t.hold_ms > 0).map(t => t.hold_ms)
holds(ts) ==
    LET h == SelectSeq(ts, LAMBDA t : t.hold_ms # Null /\ t.hold_ms[1] # 0
                                      /\ t.hold_ms[1] > 0)
    IN  [i \in 1..Len(h) |-> h[i].hold_ms[1]]

avgHoldMs(hs) == IF Len(hs) # 0 THEN Over(Num(Sum(hs)), Num(Len(hs))) ELSE Num(0)

OnSide(ts, side) == SelectSeq(ts, LAMBDA t : t.side = side)

\* let lws = 0, lls = 0, cw = 0, cl = 0; sorted.forEach(...)
RECURSIVE Streaks(_, _, _)
Streaks(s, i, a) ==
    IF i > Len(s) THEN a
    ELSE IF s[i].pnl > 0
    THEN Streaks(s, i + 1, [a EXCEPT !.cw = @ + 1, !.cl = 0,
                                     !.lws = Max2(@, a.cw + 1)])
    ELSE Streaks(s, i + 1, [a EXCEPT !.cl = @ + 1, !.cw = 0,
                                     !.lls = Max2(@, a.cl + 1)])

streaks(srt) == Streaks(srt, 1, [lws |-> 0, lls |-> 0, cw |-> 0, cl |-> 0])

\* trades.filter(t => t.mae != null && t.mae > 0), and likewise t.mfe
Excursions(ts, field) ==
    LET e == SelectSeq(ts, LAMBDA t : t[field] # Null /\ Greater(t[field][1], Num(0)))
    IN  [i \in 1..Len(e) |-> e[i][field][1]]

avgExcursion(es) == IF Len(es) # 0 THEN Over(SumNum(es), Num(Len(es))) ELSE Num(0)

\* Math.max(...), Math.min(...) of a non-empty array of whole amounts
MathMax(s) == CHOOSE v \in {s[i] : i \in 1..Len(s)} : \A i \in 1..Len(s) : s[i] <= v

MathMin(s) == CHOOSE v \in {s[i] : i \in 1..Len(s)} : \A i \in 1..Len(s) : s[i] >= v

\* the statistics object computeStats returns, its constants in the order of
\* the source; the statements behind the sorted copy read the array as that
\* statement left it
computeStats(ts) ==
    LET ws    == wins(ts)
        ls    == losses(ts)
        tPnl  == totalPnl(ts)
        tFees == totalFees(ts)
        wr    == winRate(ws, ts)
        aw    == avgWin(ws)
        al    == avgLoss(ls)
        rets  == dailyRets(dailyMap(ts))
        mean  == meanRet(rets)
        copy  == SortCopy(ts)
        after == copy.array
        long  == OnSide(after, "B")
        short == OnSide(after, "A")
        st    == streaks(copy.sorted)
    IN  [netPnl |-> Num(netPnl(tPnl, tFees)), realizedPnl |-> Num(tPnl),
         totalFees |-> Num(tFees), winRate |-> wr,
         wins |-> Len(ws), losses |-> Len(ls), avgWin |-> aw, avgLoss |-> al,
         profitFactor |-> profitFactor(totalWinPnl(ws), totalLossPnl(ls)),
         avgRR |-> avgRR(aw, al), expectancy |-> expectancy(wr, aw, al),
         sharpe |-> sharpe(mean, stdRet(rets, mean)),
         sortino |-> sortino(mean, downStd(downRets(rets), rets)),
         maxDrawdown |-> Num(maxDD(copy.sorted)),
         avgHoldMs |-> avgHoldMs(holds(after)),
         longCount |-> Len(long), shortCount |-> Len(short),
         longPnl |-> Num(Sum(PnlOf(long))), shortPnl |-> Num(Sum(PnlOf(short))),
         bestTrade |-> IF Len(ws) # 0 THEN Num(MathMax(PnlOf(ws))) ELSE Num(0),
         worstTrade |-> IF Len(ls) # 0 THEN Num(MathMin(PnlOf(ls))) ELSE Num(0),
         longestWinStreak |-> st.lws, longestLossStreak |-> st.lls,
         avgMAE |-> avgExcursion(Excursions(after, "mae")),
         avgMFE |-> avgExcursion(Excursions(after, "mfe"))]

\* ------------------------------------------------- the callers of computeStats
MaxTrades == 3

\* realized pnl of a trade: a loss, a trade that broke even or is still open,
\* a win
Pnls == {-2, 0, 3}

\* open times on two UTC days, two of them one millisecond apart across
\* midnight
OpenTimes == {0, DayMs - 1, DayMs}

\* the fields of a Trade that computeStats reads
StatTrade(p, t) ==
    [pnl |-> p, fees |-> 1, open_time |-> t,
     side |-> IF t = 0 THEN "A" ELSE "B",
     hold_ms |-> IF p = 0 THEN Null ELSE Some(60000),
     mae |-> IF p < 0 THEN Some(Ratio(1, 20)) ELSE IF p = 0 THEN Null ELSE Some(Num(0)),
     mfe |-> IF p > 0 THEN Some(Ratio(1, 10)) ELSE IF p = 0 THEN Null ELSE Some(Num(0))]

TradeInputs == {StatTrade(p, t) : p \in Pnls, t \in OpenTimes}

\* one call: the array it was given, the array as the call left it, and
\* the object it returned
Called(ts) == [given |-> ts, after |-> SortCopy(ts).array, result |-> computeStats(ts)]

\* AnalyticsPage: let list = [...trades]; the result filter on net pnl
filtered(ts, resultFilter) ==
    IF resultFilter = "win" THEN SelectSeq(ts, LAMBDA t : (t.pnl - t.fees) > 0)
    ELSE IF resultFilter = "loss" THEN SelectSeq(ts, LAMBDA t : (t.pnl - t.fees) < 0)
    ELSE ts

EngineIdle ==
    UNCHANGED <<fills, position, current_trade, trades, diagnostics, next_id,
                phase, first, input>>

\* the pages of the frontend are not touched
PagesIdle == UNCHANGED <<provider, requests, journal, dateFilter>>

StatsInit == Init /\ \A c \in Coins : position[c] = 0

\* the trade list grows by one trade
PushTrade ==
    /\ Len(list) < MaxTrades
    /\ \E t \in TradeInputs : list' = Append(list, t)
    /\ UNCHANGED stats
    /\ EngineIdle /\ PagesIdle

\* computeStats(list)
CallComputeStats ==
    /\ LET call == Called(list)
       IN  list' = call.after /\ stats' = Some(call)
    /\ EngineIdle /\ PagesIdle

\* AnalyticsPage: stats = filtered.length > 0 ? computeStats(filtered) : null
AnalyzeFiltered ==
    /\ \E resultFilter \in {"", "win", "loss"} :
          LET f == filtered(list, resultFilter)
          IN  stats' = IF Len(f) > 0 THEN Some(Called(f)) ELSE Null
    /\ UNCHANGED list
    /\ EngineIdle /\ PagesIdle

NextStats == PushTrade \/ CallComputeStats \/ AnalyzeFiltered

SpecStats == StatsInit /\ [][NextStats]_vars

\* ------------------------------------------------------------ TradeProvider
\* the number of requests a session issues
MaxRequests == 3

\* the trade arrays the backend answers with, a trade standing for its id
TradeArrays == {<<>>, <<1>>, <<1, 2>>}

\* fetchJSON: the promise resolves with the parsed body, or an Error is
\* thrown: with the body's error text or the status line when the response
\* is not ok, and by fetch itself when the request does not get through
fetchJSON ==
    {[ok |-> TRUE, data |-> d, isError |-> FALSE, message |-> ""] : d \in TradeArrays}
    \cup {[ok |-> FALSE, data |-> <<>>, isError |-> TRUE, message |-> m] :
             m \in {"wallet not found", "API error: 500 Internal Server Error",
                    "Failed to fetch"}}

\* e instanceof Error ? e.message : fallback
ErrorMessage(e, fallback) == IF e.isError THEN e.message ELSE fallback

Fallback(kind) ==
    IF kind = "load" THEN "Failed to load trades" ELSE "Failed to refresh trades"

\* setLoading(true); setError(null)
Begin(p) == [p EXCEPT !.loading = TRUE, !.error = Null]

\* const data = await ...; setTrades(data); finally setLoading(false)
OnFulfilled(p, data) == [p EXCEPT !.trades = data, !.loading = FALSE]

\* faulty variant: the trades are dropped when a request fails
OnRejectedDropsTrades(p, e, kind) ==
    [p EXCEPT !.trades = <<>>, !.error = Some(ErrorMessage(e, Fallback(kind))),
              !.loading = FALSE]

\* catch (e) { setError(...) } finally { setLoading(false) }
OnRejected(p, e, kind) ==
    [p EXCEPT !.error = Some(ErrorMessage(e, Fallback(kind))), !.loading = FALSE]

\* a request as it is issued
Issued(kind) == [kind |-> kind, settled |-> FALSE, result |-> Null]

\* faulty variant: the buttons stay enabled while trades are loading
NeverDisabled == FALSE

\* disabled={loading}, on the Refresh button of the header and on the Retry
\* and Refresh buttons of the pages
Disabled == provider.loading

ProviderIdle == UNCHANGED <<list, stats, journal, dateFilter>>

\* useEffect(() => { loadTrades() }, [loadTrades]): the effect of the mount.
\* The provider is mounted only with a wallet set, and nothing sets another
\* wallet while it is mounted, so loadTrades keeps its identity.
MountLoad ==
    /\ requests = <<>>
    /\ provider' = Begin(provider)
    /\ requests' = Append(requests, Issued("load"))
    /\ EngineIdle /\ ProviderIdle

\* a click on a button whose onClick is refreshTrades
ClickRefresh ==
    /\ ~Disabled
    /\ Len(requests) < MaxRequests
    /\ provider' = Begin(provider)
    /\ requests' = Append(requests, Issued("refresh"))
    /\ EngineIdle /\ ProviderIdle

\* the promise of a request settles and the handler runs on from its await
Settle(i, r) ==
    /\ ~requests[i].settled
    /\ provider' = IF r.ok THEN OnFulfilled(provider, r.data)
                   ELSE OnRejected(provider, r, requests[i].kind)
    /\ requests' = [requests EXCEPT ![i] = [@ EXCEPT !.settled = TRUE,
                                                     !.result = Some(r)]]
    /\ EngineIdle /\ ProviderIdle

Fulfil == \E i \in 1..Len(requests), r \in fetchJSON : r.ok /\ Settle(i, r)

Reject == \E i \in 1..Len(requests), r \in fetchJSON : ~r.ok /\ Settle(i, r)

NextProvider == MountLoad \/ ClickRefresh \/ Fulfil \/ Reject

SpecProvider == StatsInit /\ [][NextProvider]_vars

\* --------------------------------------------------------------- DateFilter
\* A Date is a day of the year 2024 at local midnight, numbered from 1; a
\* string is the sequence of its character codes, '' the empty sequence.
Year == 2024

MonthLengths == <<31, 29, 31, 30, 31, 30, 31, 31, 30, 31, 30, 31>>

\* new Date(year, month, 1), month from 0
RECURSIVE FirstOf(_)
FirstOf(month) == IF month = 0 THEN 1 ELSE FirstOf(month - 1) + MonthLengths[month]

RECURSIVE MonthOn(_, _)
MonthOn(n, month) ==
    IF n <= MonthLengths[month + 1] THEN month ELSE MonthOn(n - MonthLengths[month + 1], month + 1)

getMonth(n) == MonthOn(n, 0)

getDate(n) == n - FirstOf(getMonth(n)) + 1

\* 0 is Sunday; the first of January 2024 is a Monday
getDay(n) == n % 7

\* String(v) of a number below 10000, and padStart(2, '0')
RECURSIVE Digits(_)
Digits(v) == IF v < 10 THEN <<48 + v>> ELSE Append(Digits(v \div 10), 48 + (v % 10))

padStart2(str) == IF Len(str) < 2 THEN <<48>> \o str ELSE str

\* `${d.getFullYear()}-${month, padded}-${day, padded}`
toKey(n) ==
    Digits(Year) \o <<45>> \o padStart2(Digits(getMonth(n) + 1)) \o <<45>>
        \o padStart2(Digits(getDate(n)))

\* a < b on strings: by the first code unit that differs
RECURSIVE Less(_, _)
Less(a, b) ==
    IF b = <<>> THEN FALSE
    ELSE IF a = <<>> THEN TRUE
    ELSE IF Head(a) # Head(b) THEN Head(a) < Head(b)
    ELSE Less(Tail(a), Tail(b))

\* the day new Date() is drawn from: Sunday the 13th of October
Todays == {287}

\* the days whose cells are clicked: 30 September and 13 October
Cells == {274, 287}

\* Number(str) of a string of digits
RECURSIVE Number(_)
Number(str) ==
    IF str = <<>> THEN 0 ELSE 10 * Number(SubSeq(str, 1, Len(str) - 1)) + (str[Len(str)] - 48)

\* new Date(key + 'T00:00:00') of a 'YYYY-MM-DD' key of the year, as its day
DayOfKey(key) == FirstOf(Number(SubSeq(key, 6, 7)) - 1) + Number(SubSeq(key, 9, 10)) - 1

\* the presets, as their from and to days
Presets(t) ==
    LET dowToday      == IF getDay(t) = 0 THEN 6 ELSE getDay(t) - 1
        thisWeekStart == t - dowToday
        month         == getMonth(t)
    IN  { <<t, t>>, <<t - 1, t - 1>>,
          <<thisWeekStart, thisWeekStart + 6>>,
          <<thisWeekStart - 7, thisWeekStart - 1>>,
          <<FirstOf(month), FirstOf(month + 1) - 1>>,
          <<FirstOf(month - 1), FirstOf(month) - 1>>,
          <<t - 6, t>>, <<t - 29, t>>, <<t - 89, t>>,
          <<FirstOf(0), t>> }

\* the search parameters the page is routed to with: none, or the day or
\* the week picked on the calendar page
RoutedWith == {<<<<>>, <<>>>>, <<toKey(274), toKey(274)>>, <<toKey(274), toKey(280)>>}

\* the component as it is mounted with the props from and to, and the
\* dateGroupBy of the page that mounts it
DateFilterAtMount(from, to, today) ==
    [from |-> from, to |-> to, today |-> today, open |-> FALSE,
     selFrom |-> from, selTo |-> to, dateMode |-> "range", groupBy |-> "open",
     dateGroupBy |-> "open"]

\* Sync from props when dropdown opens
SyncFromProps(d) ==
    IF d.open
    THEN [d EXCEPT !.selFrom = d.from, !.selTo = d.to,
                   !.dateMode = IF d.from # <<>> /\ d.to = <<>> THEN "after"
                                ELSE IF d.from = <<>> /\ d.to # <<>> THEN "before"
                                ELSE "range"]
    ELSE d

\* faulty variant: a range is completed without putting its ends in order
handleDayClickUnordered(d, key) ==
    IF d.dateMode = "before" THEN [d EXCEPT !.selTo = key, !.selFrom = <<>>]
    ELSE IF d.dateMode = "after" THEN [d EXCEPT !.selFrom = key, !.selTo = <<>>]
    ELSE IF d.selFrom = <<>> \/ (d.selFrom # <<>> /\ d.selTo # <<>>)
    THEN [d EXCEPT !.selFrom = key, !.selTo = <<>>]
    ELSE [d EXCEPT !.selTo = key]

handleDayClick(d, key) ==
    IF d.dateMode = "before" THEN [d EXCEPT !.selTo = key, !.selFrom = <<>>]
    ELSE IF d.dateMode = "after" THEN [d EXCEPT !.selFrom = key, !.selTo = <<>>]
    ELSE IF d.selFrom = <<>> \/ (d.selFrom # <<>> /\ d.selTo # <<>>)
    THEN [d EXCEPT !.selFrom = key, !.selTo = <<>>]
    ELSE IF Less(key, d.selFrom)
    THEN [d EXCEPT !.selTo = d.selFrom, !.selFrom = key]
    ELSE [d EXCEPT !.selTo = key]

\* the Before, Range and After buttons
setMode(d, mode) ==
    IF mode = "before" THEN [d EXCEPT !.dateMode = "before", !.selFrom = <<>>]
    ELSE IF mode = "after" THEN [d EXCEPT !.dateMode = "after", !.selTo = <<>>]
    ELSE [d EXCEPT !.dateMode = "range"]

applyPreset(d, fromDate, toDate) ==
    [d EXCEPT !.selFrom = toKey(fromDate), !.selTo = toKey(toDate), !.dateMode = "range"]

\* the page's onApply(from, to, groupBy): it keeps groupBy and puts from and
\* to into the search parameters, which come back as the props
onApply(d, from, to, groupBy) == [d EXCEPT !.dateGroupBy = groupBy, !.from = from, !.to = to]

\* faulty variant: the props are handed on in place of the selection
handleApplyProps(d) == [onApply(d, d.from, d.to, d.groupBy) EXCEPT !.open = FALSE]

\* onApply(selFrom, selTo, groupBy); setOpen(false)
handleApply(d) == [onApply(d, d.selFrom, d.selTo, d.groupBy) EXCEPT !.open = FALSE]

\* onClear(); setOpen(false): the page empties the search parameters
handleClear(d) ==
    [d EXCEPT !.selFrom = <<>>, !.selTo = <<>>, !.from = <<>>, !.to = <<>>, !.open = FALSE]

DateFilterIdle == UNCHANGED <<list, stats, provider, requests, journal>>

\* the journal is routed to and the filter mounted
MountDateFilter ==
    /\ dateFilter = Null
    /\ \E r \in RoutedWith, today \in Todays :
          dateFilter' = Some(DateFilterAtMount(r[1], r[2], today))
    /\ EngineIdle /\ DateFilterIdle

\* one handler of the open dropdown runs
Handle(next) ==
    /\ dateFilter # Null
    /\ dateFilter[1].open
    /\ dateFilter' = Some(next)
    /\ EngineIdle /\ DateFilterIdle

\* the trigger button, or a mouse press outside the open dropdown
ToggleOpen ==
    /\ dateFilter # Null
    /\ dateFilter' = Some(SyncFromProps([dateFilter[1] EXCEPT !.open = ~@]))
    /\ EngineIdle /\ DateFilterIdle

DayClick == \E n \in Cells : Handle(handleDayClick(dateFilter[1], toKey(n)))

ModeClick == \E mode \in {"before", "range", "after"} : Handle(setMode(dateFilter[1], mode))

GroupByClick == \E g \in {"open", "close"} : Handle([dateFilter[1] EXCEPT !.groupBy = g])

PresetClick ==
    /\ dateFilter # Null
    /\ \E p \in Presets(dateFilter[1].today) : Handle(applyPreset(dateFilter[1], p[1], p[2]))

\* the values typed into a date input: none, or the 1st of October
Typed == {<<>>, toKey(275)}

\* a date typed into the From or the To input of the dropdown, or emptied
TypeDate ==
    \E v \in Typed :
        \/ Handle([dateFilter[1] EXCEPT !.selFrom = v])
        \/ Handle([dateFilter[1] EXCEPT !.selTo = v])

ApplyClick == Handle(handleApply(dateFilter[1]))

ClearClick == Handle(handleClear(dateFilter[1]))

NextDateFilter ==
    \/ MountDateFilter \/ ToggleOpen \/ DayClick \/ ModeClick \/ GroupByClick
    \/ PresetClick \/ TypeDate \/ ApplyClick \/ ClearClick

SpecDateFilter == StatsInit /\ [][NextDateFilter]_vars

\* -------------------------------------------------------------- JournalPage
\* Times are milliseconds from the local midnight that begins the year.
PER_PAGE == 20

\* the most trades the context hands the page
MaxLoaded == 41

\* the i-th trade of the wallet: coins, sides, results and days alternate
TradeAt(i) ==
    [id |-> i,
     coin |-> IF i % 2 = 0 THEN "BTC" ELSE "ETH",
     side |-> IF i % 3 = 0 THEN "A" ELSE "B",
     pnl |-> (i % 5) - 2,
     fees |-> i % 2,
     open_time |-> (8 + (i % 4)) * DayMs + i * 1000,
     close_time |-> (8 + (i % 4) + (i % 3)) * DayMs + i * 1000]

Loaded(n) == [i \in 1..n |-> TradeAt(i)]

\* the trades of the context: none while the first load is in flight, and
\* after it a wallet's trades, more of them or fewer after a refresh
TradeLists == {Loaded(0), Loaded(1), Loaded(PER_PAGE + 1), Loaded(MaxLoaded)}

\* tagMap[String(t.id)] || []
tagMap(id) ==
    (IF id % 2 = 0 THEN {"a"} ELSE {}) \cup (IF id % 3 = 0 THEN {"b"} ELSE {})

\* the page as it is mounted
JournalAtMount(ts, from, to) ==
    [trades |-> ts, dateFrom |-> from, dateTo |-> to, page |-> 1,
     sideFilter |-> "", resultFilter |-> "", coinFilter |-> "",
     sortCol |-> "null", sortDir |-> "desc", selectedTags |-> {},
     tagLogic |-> "any", dateGroupBy |-> "open"]

\* the time a trade is dated by
DatedBy(j, t) == IF j.dateGroupBy = "close" /\ t.close_time # 0 THEN t.close_time ELSE t.open_time

\* the filters of the filtered memo, in the order it applies them
Shown(j, t) ==
    /\ j.dateFrom # <<>> => DatedBy(j, t) >= (DayOfKey(j.dateFrom) - 1) * DayMs
    /\ j.dateTo # <<>> => DatedBy(j, t) <= DayOfKey(j.dateTo) * DayMs - 1
    /\ j.sideFilter # "" => t.side = j.sideFilter
    /\ j.resultFilter = "win" => t.pnl - t.fees > 0
    /\ j.resultFilter = "loss" => t.pnl - t.fees < 0
    /\ j.coinFilter # "" => t.coin = j.coinFilter
    /\ j.selectedTags # {} =>
          IF j.tagLogic = "any" THEN tagMap(t.id) \cap j.selectedTags # {}
          ELSE j.selectedTags \subseteq tagMap(t.id)

\* the comparator of list.sort
Compare(j, a, b) ==
    IF j.sortCol = "null" THEN b.open_time - a.open_time
    ELSE LET dir == IF j.sortDir = "desc" THEN -1 ELSE 1
             cmp == CASE j.sortCol = "time" -> a.open_time - b.open_time
                      [] j.sortCol = "fees" -> a.fees - b.fees
                      [] j.sortCol = "pnl"  -> (a.pnl - a.fees) - (b.pnl - b.fees)
         IN  cmp * dir

\* Array.prototype.sort, which is stable
RECURSIVE SortBy(_, _)
SortBy(j, l) ==
    IF l = <<>> THEN <<>>
    ELSE LET s == SortBy(j, SubSeq(l, 1, Len(l) - 1))
             t == l[Len(l)]
             k == Cardinality({i \in 1..Len(s) : Compare(j, s[i], t) <= 0})
         IN  SubSeq(s, 1, k) \o <<t>> \o SubSeq(s, k + 1, Len(s))

\* the filtered memo of the page
journalFiltered(j) == SortBy(j, SelectSeq(j.trades, LAMBDA t : Shown(j, t)))

\* Math.ceil(n / d) of naturals
Ceil(n, d) == (n + d - 1) \div d

totalPages(j) == Max2(1, Ceil(Len(journalFiltered(j)), PER_PAGE))

\* faulty variant: the page is shown as it is kept
currentPageUnclamped(j) == j.page

currentPage(j) == Min2(j.page, totalPages(j))

\* Array.prototype.slice(start, end)
slice(l, start, end) == SubSeq(l, start + 1, Min2(end, Len(l)))

pageItems(j) ==
    LET start == (currentPage(j) - 1) * PER_PAGE
    IN  slice(journalFiltered(j), start, start + PER_PAGE)

cycleSort(j, col) ==
    IF j.sortCol # col THEN [j EXCEPT !.sortCol = col, !.sortDir = "desc", !.page = 1]
    ELSE IF j.sortDir = "desc" THEN [j EXCEPT !.sortDir = "asc", !.page = 1]
    ELSE [j EXCEPT !.sortCol = "null", !.sortDir = "desc", !.page = 1]

\* the search parameters the page is routed to with, and the ranges applied
DateRanges == {<<<<>>, <<>>>>, <<toKey(10), toKey(11)>>}

JournalIdle == UNCHANGED <<list, stats, provider, requests, dateFilter>>

\* the journal is routed to
MountJournal ==
    /\ journal = Null
    /\ \E ts \in TradeLists, r \in DateRanges : journal' = Some(JournalAtMount(ts, r[1], r[2]))
    /\ EngineIdle /\ JournalIdle

\* the mounted page renders again with next as its state
Render(next) ==
    /\ journal # Null
    /\ journal' = Some(next)
    /\ EngineIdle /\ JournalIdle

\* the context hands the page other trades: a load or a refresh has settled
TradesChange == \E ts \in TradeLists : Render([journal[1] EXCEPT !.trades = ts])

DateApply ==
    \E r \in DateRanges, groupBy \in {"open", "close"} :
        Render([journal[1] EXCEPT !.dateGroupBy = groupBy, !.dateFrom = r[1],
                                  !.dateTo = r[2], !.page = 1])

DateClear == Render([journal[1] EXCEPT !.dateFrom = <<>>, !.dateTo = <<>>, !.page = 1])

SideChange == \E v \in {"", "A"} : Render([journal[1] EXCEPT !.sideFilter = v, !.page = 1])

ResultChange ==
    \E v \in {"", "win", "loss"} : Render([journal[1] EXCEPT !.resultFilter = v, !.page = 1])

CoinChange == \E v \in {"", "BTC"} : Render([journal[1] EXCEPT !.coinFilter = v, !.page = 1])

TagsChange ==
    \E tags \in {{}, {"a", "b"}} : Render([journal[1] EXCEPT !.selectedTags = tags, !.page = 1])

LogicChange == \E logic \in {"any", "all"} : Render([journal[1] EXCEPT !.tagLogic = logic])

SortClick == \E col \in {"time", "pnl"} : Render(cycleSort(journal[1], col))

Prev ==
    /\ journal # Null
    /\ ~(currentPage(journal[1]) <= 1)
    /\ Render([journal[1] EXCEPT !.page = @ - 1])

NextPage ==
    /\ journal # Null
    /\ ~(currentPage(journal[1]) >= totalPages(journal[1]))
    /\ Render([journal[1] EXCEPT !.page = @ + 1])

NextJournal ==
    \/ MountJournal \/ TradesChange \/ DateApply \/ DateClear \/ SideChange
    \/ ResultChange \/ CoinChange \/ TagsChange \/ LogicChange \/ SortClick
    \/ Prev \/ NextPage

SpecJournal == StatsInit /\ [][NextJournal]_vars

\* ------------------------------------------------------------ properties
\* What a claim reads off the fill list (never off the engine's own
\* arithmetic): the fill behind an id, and the signed position a fill
\* leaves, startingPosition + signedDelta.
FillOf(id) == fills[id]

Resulting(f) == f.start_position + (IF f.side = "B" THEN f.sz ELSE -f.sz)

Crosses(f) == f.start_position * Resulting(f) < 0

Finalized(t) == t.close_time # Null

RECURSIVE SumPnl(_)
SumPnl(ids) ==
    IF ids = <<>> THEN 0 ELSE FillOf(Head(ids)).closed_pnl + SumPnl(Tail(ids))

RECURSIVE SumFee(_)
SumFee(ids) ==
    IF ids = <<>> THEN 0 ELSE FillOf(Head(ids)).fee + SumFee(Tail(ids))

\* a step of the first pass that takes one fill, and that fill
FillStep == phase = "run" /\ phase' = "run" /\ Len(fills') = Len(fills) + 1

TheFill == fills'[Len(fills')]

\* C1 (as claimed): every finalized trade's realizedPnl is the sum of
\* closedPnl over the fills of its fill_ids, and its fees the sum of fee over
\* those same fills, opening fills included.
C1_Reconciliation ==
    \A i \in 1..Len(trades) :
        Finalized(trades[i]) =>
            /\ trades[i].pnl = SumPnl(trades[i].fill_ids)
            /\ trades[i].fees = SumFee(trades[i].fill_ids)

FlipStep ==
    /\ FillStep
    /\ ~Malformed(TheFill)
    /\ IsClose(TheFill)
    /\ current_trade[TheFill.coin].active
    /\ TheFill.sz > Abs(TheFill.start_position)
    /\ Crosses(TheFill)

OrphanStep ==
    /\ FillStep
    /\ ~Malformed(TheFill)
    /\ IsClose(TheFill)
    /\ ~current_trade[TheFill.coin].active

OrphanIds == { diagnostics[i].tid : i \in { j \in 1..Len(diagnostics) :
                                             diagnostics[j].kind = "OrphanClose" } }

Ids(seq) == { seq[i] : i \in 1..Len(seq) }

\* C4: an orphan close is discarded: no trade is emitted, no accumulator
\* changes, exactly one orphan-close diagnostic is recorded, and the fill's
\* id appears in no trade's and no accumulator's fill_ids.
C4_OrphanClose ==
    /\ [][OrphanStep =>
            /\ trades' = trades
            /\ current_trade' = current_trade
            /\ next_id' = next_id
            /\ diagnostics' = Append(diagnostics, [kind |-> "OrphanClose",
                                                   tid |-> TheFill.tid])]_vars
    /\ [](\A id \in OrphanIds :
            /\ \A i \in 1..Len(trades) : id \notin Ids(trades[i].fill_ids)
            /\ \A c \in Coins : id \notin Ids(current_trade[c].fill_ids))

\* C4 witness: the stream started with an orphan close, and a trade was
\* built and finalized from the fills after it.
C4_Witness ==
    /\ phase = "run"
    /\ 1 \in OrphanIds
    /\ \E i \in 1..Len(trades) :
         Finalized(trades[i]) /\ trades[i].coin = FillOf(1).coin

\* trades i and j are successive trades of one coin in the trades list
Successive(i, j) ==
    /\ i < j
    /\ trades[i].coin = trades[j].coin
    /\ \A k \in (i + 1)..(j - 1) : trades[k].coin # trades[i].coin

TradePairs == { p \in (1..Len(trades)) \X (1..Len(trades)) : Successive(p[1], p[2]) }

FirstFill(t) == FillOf(t.fill_ids[1])

LastFill(t) == FillOf(Last(t.fill_ids))

\* C5 (as claimed): per coin, openTime is strictly increasing across the
\* successive trades of the trades list.
C5_OpenTimeStrictlyIncreasing ==
    \A p \in TradePairs : trades[p[1]].open_time < trades[p[2]].open_time

\* C5 (amended): per coin, openTime is non-decreasing across successive
\* trades, and strictly increasing whenever the fills that opened the two
\* trades carry different timestamps.
C5_OpenTimeNonDecreasing ==
    \A p \in TradePairs :
        LET a == trades[p[1]]
            b == trades[p[2]]
        IN  /\ a.open_time <= b.open_time
            /\ FirstFill(a).time # FirstFill(b).time => a.open_time < b.open_time

\* C5 witness: two successive trades of a coin, the second opened at a later
\* timestamp than the first.
C5_Witness ==
    \E p \in TradePairs :
        /\ trades[p[1]].open_time < trades[p[2]].open_time
        /\ FirstFill(trades[p[1]]).time > 0

\* the second trade continues the first by a position flip: the fill that
\* closed the first opened the second
FlipContinuation(a, b) == b.fill_ids[1] = Last(a.fill_ids)

\* C6 (as claimed): per coin a trade with a successor is closed, the
\* successor's openTime is not earlier than its closeTime, and the two are
\* equal only for a position-flip continuation.
C6_NonOverlapEqualityOnlyByFlip ==
    \A p \in TradePairs :
        LET a == trades[p[1]]
            b == trades[p[2]]
        IN  /\ Finalized(a)
            /\ b.open_time >= a.close_time[1]
            /\ b.open_time = a.close_time[1] => FlipContinuation(a, b)

\* C6 (amended): per coin a trade with a successor is closed (at most one
\* open trade per coin, the last), the successor's openTime is not earlier
\* than its closeTime, a position-flip continuation opens exactly at that
\* closeTime, and otherwise the two are equal only when the opening fill
\* carries the timestamp of the fill that closed the preceding trade.
C6_NonOverlap ==
    \A p \in TradePairs :
        LET a == trades[p[1]]
            b == trades[p[2]]
        IN  /\ Finalized(a)
            /\ b.open_time >= a.close_time[1]
            /\ FlipContinuation(a, b) => b.open_time = a.close_time[1]
            /\ b.open_time = a.close_time[1] =>
                  \/ FlipContinuation(a, b)
                  \/ FirstFill(b).time = LastFill(a).time

\* C6 witness: a trade closed, and the next trade of the coin opened by a
\* later fill.
C6_Witness ==
    \E p \in TradePairs :
        /\ ~FlipContinuation(trades[p[1]], trades[p[2]])
        /\ trades[p[2]].open_time > trades[p[1]].close_time[1]

RECURSIVE SumSz(_, _)
SumSz(ids, open) ==
    IF ids = <<>> THEN 0
    ELSE (IF IsOpen(FillOf(Head(ids))) = open THEN FillOf(Head(ids)).sz ELSE 0)
         + SumSz(Tail(ids), open)

RECURSIVE SumPxSz(_, _)
SumPxSz(ids, open) ==
    IF ids = <<>> THEN 0
    ELSE (IF IsOpen(FillOf(Head(ids))) = open
          THEN FillOf(Head(ids)).px * FillOf(Head(ids)).sz ELSE 0)
         + SumPxSz(Tail(ids), open)

\* two quotients, both defined, that are the same number
SameRatio(a, b) == a.den > 0 /\ b.den > 0 /\ RatioEq(a, b)

EntryPart(t, k) ==
    LET f == FillOf(t.fill_ids[k])
    IN  IF IsOpen(f) THEN f.sz
        ELSE IF k = 1 THEN Abs(Resulting(f))
        ELSE 0

\* the size with which it counts toward the exit: a closing fill with its
\* size, the flip fill that closed the trade with the part that closed it
ExitPart(t, k) ==
    LET f == FillOf(t.fill_ids[k])
    IN  IF IsOpen(f) \/ k = 1 THEN 0
        ELSE IF k = Len(t.fill_ids) /\ Finalized(t) /\ Crosses(f)
        THEN f.sz - Abs(Resulting(f))
        ELSE f.sz

RECURSIVE EntrySz(_, _)
EntrySz(t, k) == IF k = 0 THEN 0 ELSE EntryPart(t, k) + EntrySz(t, k - 1)

RECURSIVE EntryVal(_, _)
EntryVal(t, k) ==
    IF k = 0 THEN 0
    ELSE FillOf(t.fill_ids[k]).px * EntryPart(t, k) + EntryVal(t, k - 1)

RECURSIVE ExitSz(_, _)
ExitSz(t, k) == IF k = 0 THEN 0 ELSE ExitPart(t, k) + ExitSz(t, k - 1)

RECURSIVE ExitVal(_, _)
ExitVal(t, k) ==
    IF k = 0 THEN 0
    ELSE FillOf(t.fill_ids[k]).px * ExitPart(t, k) + ExitVal(t, k - 1)

OpenTradesOf(c) ==
    { i \in 1..Len(trades) : trades[i].coin = c /\ trades[i].close_time = Null }

\* the last well-formed fill of a coin, 0 if it has none
RECURSIVE LastGood(_, _)
LastGood(c, k) ==
    IF k = 0 THEN 0
    ELSE IF fills[k].coin = c /\ ~Malformed(fills[k]) THEN k
    ELSE LastGood(c, k - 1)

\* C9: when the pass has ended, every coin whose accumulator is still active
\* has exactly one open trade, with closeTime, exitPrice and holdDuration
\* null, every other coin has none, and a coin whose last fill left the
\* position flat has none.
C9_EndOfStream ==
    phase # "run" =>
        \A c \in Coins :
            /\ current_trade[c].active =>
                 /\ Cardinality(OpenTradesOf(c)) = 1
                 /\ \A i \in OpenTradesOf(c) :
                      /\ trades[i].exit_px = Null
                      /\ trades[i].hold_ms = Null
                      /\ trades[i].open_time = current_trade[c].open_time
                      /\ trades[i].size = current_trade[c].entry_size
            /\ ~current_trade[c].active => OpenTradesOf(c) = {}
            /\ (LastGood(c, Len(fills)) # 0
                  /\ Resulting(fills[LastGood(c, Len(fills))]) = 0)
                 => OpenTradesOf(c) = {}

\* C9 witness: the pass ended with one coin still in a position and the
\* other back to flat after a round trip.
C9_Witness ==
    /\ phase = "done"
    /\ \E c \in Coins : current_trade[c].active /\ OpenTradesOf(c) # {}
    /\ \E c \in Coins :
         /\ ~current_trade[c].active
         /\ \E i \in 1..Len(trades) : trades[i].coin = c /\ Finalized(trades[i])

GoodOnly(fs) == SelectSeq(fs, LAMBDA f : ~Malformed(f))

MalformedIds == { fills[i].tid : i \in { j \in 1..Len(fills) : Malformed(fills[j]) } }

MalformedDiagIds ==
    { diagnostics[i].tid : i \in { j \in 1..Len(diagnostics) :
                                     diagnostics[j].kind = "MalformedFill" } }

\* C10: a malformed fill is rejected alone: the step records one diagnostic
\* under its fill id and leaves the accumulators and the trades as they
\* were, and the trades of the pass are those of the stream without the
\* malformed fills.
C10_MalformedFill ==
    /\ [][FillStep /\ Malformed(TheFill) =>
            /\ trades' = trades
            /\ current_trade' = current_trade
            /\ next_id' = next_id
            /\ diagnostics' = Append(diagnostics, [kind |-> "MalformedFill",
                                                   tid |-> TheFill.tid])]_vars
    /\ [](MalformedDiagIds = MalformedIds)
    /\ [](phase = "done" =>
            trades = Aggregate(NewRun(Here), GoodOnly(fills)).trades)

\* C10 witness: a malformed fill arrived while a trade was being built, and
\* the trade was closed by the fill after it.
C10_Witness ==
    /\ phase = "done"
    /\ Len(fills) = 3
    /\ Malformed(fills[2])
    /\ \E i \in 1..Len(trades) :
         Finalized(trades[i]) /\ trades[i].fill_ids = <<1, 3>>

\* ------------------------------------------------------- unsorted input
\* the places of a fill list whose timestamp runs backwards within its coin
Regressions(fs) ==
    { k \in 2..Len(fs) :
        \E h \in 1..(k - 1) : fs[h].coin = fs[k].coin /\ fs[h].time > fs[k].time }

Offending(fs) == fs[CHOOSE k \in Regressions(fs) : \A h \in Regressions(fs) : k <= h]

\* fills of one timestamp are handed in in the order of the stream
TiesKeepOrder(fs) ==
    \A h, k \in 1..Len(fs) :
        h < k /\ fs[h].time = fs[k].time => fs[h].tid < fs[k].tid

HasStats == stats # Null

Given == stats[1].given

Result == stats[1].result

IsZero(x) == Finite(x) /\ x.num = 0

IsZeroRoot(s) == s.sgn = 0 /\ IsZero(s.sq)

\* C12: computeStats([]) returns winRate = 0, profitFactor = 0 and every sum,
\* count, average, streak, drawdown, Sharpe and Sortino field equal to 0,
\* none of them NaN or infinite.
C12_EmptyInput ==
    HasStats /\ Given = <<>> =>
        /\ \A k \in {"netPnl", "realizedPnl", "totalFees", "winRate", "avgWin",
                      "avgLoss", "profitFactor", "avgRR", "expectancy",
                      "maxDrawdown", "avgHoldMs", "longPnl", "shortPnl",
                      "bestTrade", "worstTrade", "avgMAE", "avgMFE"} :
              IsZero(Result[k])
        /\ \A k \in {"wins", "losses", "longCount", "shortCount",
                      "longestWinStreak", "longestLossStreak"} : Result[k] = 0
        /\ IsZeroRoot(Result.sharpe)
        /\ IsZeroRoot(Result.sortino)

\* C12 witness: computeStats was called on the empty array and returned.
C12_Witness == HasStats /\ Given = <<>> /\ list = <<>> /\ IsZero(Result.winRate)

\* a step in which computeStats was called and returned
CallStep == stats' # Null /\ stats' # stats

\* C13: a call of computeStats leaves the array it was given as it was (same
\* elements, same order, same fields) and leaves the caller's trade list
\* alone, and a call on an array equal to the one of the call before returns
\* equal statistics.
C13_Purity ==
    [][CallStep =>
         /\ stats'[1].after = stats'[1].given
         /\ list' = list
         /\ (stats # Null /\ stats[1].given = stats'[1].given
               => stats'[1].result = stats[1].result)]_vars

\* C13 witness: computeStats has been called on a caller's array of three
\* trades that is not in open_time order, and the array is still in that order.
C13_Witness ==
    /\ HasStats
    /\ Given = list
    /\ Len(list) = 3
    /\ list[1].open_time > list[2].open_time
    /\ list[2].open_time < list[3].open_time

\* the trades of the given array with realized pnl above zero, and below
Winners == {i \in 1..Len(Given) : Given[i].pnl > 0}

Losers == {i \in 1..Len(Given) : Given[i].pnl < 0}

\* C14 (as claimed): winRate is the fraction (trades with realizedPnl > 0) /
\* (all trades), between 0 and 1, and 0 for the empty list.
C14_WinRateFraction ==
    HasStats =>
        /\ Given # <<>> =>
              RatioEq(Result.winRate, Ratio(Cardinality(Winners), Len(Given)))
        /\ Given = <<>> => IsZero(Result.winRate)
        /\ ~Greater(Num(0), Result.winRate) /\ ~Greater(Result.winRate, Num(1))

\* C14 (amended): winRate is the percentage 100 * (trades with realizedPnl
\* > 0) / (all trades), between 0 and 100, and 0 for the empty list.
C14_WinRatePercent ==
    HasStats =>
        /\ Finite(Result.winRate)
        /\ Given # <<>> =>
              RatioEq(Result.winRate, Ratio(100 * Cardinality(Winners), Len(Given)))
        /\ Given = <<>> => IsZero(Result.winRate)
        /\ ~Greater(Num(0), Result.winRate) /\ ~Greater(Result.winRate, Num(100))

\* C14 witness: statistics of three trades, one a win, one a loss and one
\* that broke even: the win rate is a third of 100.
C14_Witness ==
    /\ HasStats
    /\ Len(Given) = 3
    /\ Cardinality(Winners) = 1
    /\ Cardinality(Losers) = 1
    /\ RatioEq(Result.winRate, Ratio(100, 3))

\* the sum of the realized pnl of the trades at the places S of the given array
RECURSIVE PnlOver(_)
PnlOver(S) ==
    IF S = {} THEN 0
    ELSE LET i == CHOOSE j \in S : TRUE IN Given[i].pnl + PnlOver(S \ {i})

\* C15: profitFactor is sum(pnl of winning trades) / |sum(pnl of losing
\* trades)|, and 0, not infinity, whenever no trade is a losing one, also
\* when all trades are wins.
C15_ProfitFactor ==
    HasStats =>
        /\ Finite(Result.profitFactor)
        /\ Losers = {} => IsZero(Result.profitFactor)
        /\ Losers # {} =>
              RatioEq(Result.profitFactor,
                      Ratio(PnlOver(Winners), Abs(PnlOver(Losers))))

\* C15 witness: statistics of three trades that are all wins: the profit
\* factor is 0.
C15_Witness ==
    /\ HasStats
    /\ Len(Given) = 3
    /\ Cardinality(Winners) = 3
    /\ IsZero(Result.profitFactor)

\* the place of the i-th trade of the given array in ascending open_time
\* order, trades of one open_time in array order
Rank(i) ==
    1 + Cardinality({j \in 1..Len(Given) :
                       \/ Given[j].open_time < Given[i].open_time
                       \/ Given[j].open_time = Given[i].open_time /\ j < i})

ByOpenTime(k) == Given[CHOOSE i \in 1..Len(Given) : Rank(i) = k]

RECURSIVE Cum(_)
Cum(k) == IF k = 0 THEN 0 ELSE Cum(k - 1) + ByOpenTime(k).pnl - ByOpenTime(k).fees

MaxOf(S) == CHOOSE m \in S : \A x \in S : x <= m

Peak(k) == MaxOf({Cum(j) : j \in 0..k})

\* C16: maxDrawdown is the maximum, over the trades in ascending openTime
\* order, of running peak of cumulative net pnl minus cumulative net pnl, with
\* net pnl = realizedPnl - fees and the peak starting at 0; it is never
\* negative and is 0 when the cumulative net pnl never falls below its peak.
C16_MaxDrawdown ==
    HasStats =>
        LET n == Len(Given)
        IN  /\ Result.maxDrawdown = Num(MaxOf({0} \cup {Peak(k) - Cum(k) : k \in 1..n}))
            /\ Result.maxDrawdown.num >= 0
            /\ (\A k \in 1..n : Cum(k) >= Peak(k)) => IsZero(Result.maxDrawdown)

\* C16 witness: three trades handed over out of open_time order (win, loss,
\* loss) whose order by open_time is loss, win, loss: the drawdown is 4, the
\* fall from the peak 0 to -3 + 2 - 3.
C16_Witness ==
    /\ HasStats
    /\ Len(Given) = 3
    /\ Given[1].pnl > 0 /\ Given[2].pnl < 0 /\ Given[3].pnl < 0
    /\ Given[2].open_time < Given[1].open_time
    /\ Given[1].open_time < Given[3].open_time
    /\ Result.maxDrawdown = Num(4)

\* the longest run of consecutive trades, in open_time order, that are all
\* in the class P
LongestRun(P(_)) ==
    MaxOf({len \in 0..Len(Given) :
            \E a \in 1..(Len(Given) + 1) :
                /\ a + len - 1 <= Len(Given)
                /\ \A k \in a..(a + len - 1) : P(ByOpenTime(k))})

IsWin(t) == t.pnl > 0

IsLoss(t) == t.pnl < 0

\* C17 (as claimed): in ascending openTime order, longestWinStreak is the
\* length of the longest run of consecutive winning trades (realizedPnl > 0)
\* and longestLossStreak the length of the longest run of consecutive losing
\* trades.
C17_Streaks ==
    HasStats =>
        /\ Result.longestWinStreak = LongestRun(IsWin)
        /\ Result.longestLossStreak = LongestRun(IsLoss)

\* the UTC days on which trades of the given array opened
Days == {DayKey(Given[i].open_time) : i \in 1..Len(Given)}

OpenedOn(d) == {i \in 1..Len(Given) : DayKey(Given[i].open_time) = d}

RECURSIVE FeesOver(_)
FeesOver(S) ==
    IF S = {} THEN 0
    ELSE LET i == CHOOSE j \in S : TRUE IN Given[i].fees + FeesOver(S \ {i})

\* C18 (as claimed): every day on which a trade opened has exactly one
\* bucket, the bucket holds the net pnl (realizedPnl - fees) of the trades
\* that opened on that day, and the buckets add up to the total net pnl.
C18_DailyNetBuckets ==
    HasStats =>
        LET m == dailyMap(Given)
        IN  /\ \A d \in Days :
                  /\ Cardinality({i \in 1..Len(m) : m[i].k = d}) = 1
                  /\ \A i \in 1..Len(m) :
                        m[i].k = d => m[i].v = PnlOver(OpenedOn(d)) - FeesOver(OpenedOn(d))
            /\ \A i \in 1..Len(m) : m[i].k \in Days
            /\ Sum(dailyRets(m)) =
                   PnlOver(1..Len(Given)) - FeesOver(1..Len(Given))

\* ----------------------------------------------------------- partial close
\* a closing fill, routed to the trade being built, that leaves a position
\* of the same sign as before
PartialCloseStep ==
    /\ FillStep
    /\ ~Malformed(TheFill)
    /\ IsClose(TheFill)
    /\ current_trade[TheFill.coin].active
    /\ TheFill.start_position * Resulting(TheFill) > 0

\* C19: a closing fill whose resulting position is non-zero and of the same
\* sign as before leaves the trade open: no trade is emitted, the accumulator
\* keeps its open time and direction, and the fill's realized pnl, fee,
\* price x size and id are added to that same accumulator.
C19_PartialClose ==
    [][PartialCloseStep =>
         LET f   == TheFill
             old == current_trade[f.coin]
             new == current_trade'[f.coin]
         IN  /\ trades' = trades
             /\ new.active
             /\ new.coin = old.coin
             /\ new.open_time = old.open_time
             /\ new.side = old.side
             /\ new.entry_value = old.entry_value
             /\ new.entry_size = old.entry_size
             /\ new.realized_pnl = old.realized_pnl + f.closed_pnl
             /\ new.fees = old.fees + f.fee
             /\ new.exit_value = old.exit_value + f.px * f.sz
             /\ new.exit_size = old.exit_size + f.sz
             /\ new.fill_ids = Append(old.fill_ids, f.tid)
             /\ \A c \in Coins \ {f.coin} : current_trade'[c] = current_trade[c]]_vars

\* C19 witness: a long of size 4 scaled out by 2: the trade is still being
\* built and holds the closing fill's pnl, fee, value and id.
C19_Witness ==
    /\ phase = "run"
    /\ \E c \in Coins :
          LET a == current_trade[c]
          IN  /\ a.active /\ a.side = "B"
              /\ Len(a.fill_ids) = 2
              /\ LET f == FillOf(Last(a.fill_ids))
                 IN  /\ IsClose(f)
                     /\ Resulting(f) = 2
                     /\ a.exit_size = f.sz
                     /\ a.exit_value = f.px * f.sz
                     /\ a.fees = f.fee
                     /\ a.realized_pnl = f.closed_pnl
                     /\ a.open_time = FillOf(a.fill_ids[1]).time
    /\ trades = <<>>

\* --------------------------------------------------------------- excursions
\* the move of the price of the k-th fill of trade t in favour of the
\* trade's direction, as a fraction of the average entry of t once that fill
\* is in: (px - e) / e for a long trade, (e - px) / e for a short one
FavourAt(t, k) ==
    LET rise == FillOf(t.fill_ids[k]).px * EntrySz(t, k) - EntryVal(t, k)
    IN  Ratio(IF t.side = "B" THEN rise ELSE -rise, EntryVal(t, k))

Against(r) == Ratio(-r.num, r.den)

AtLeast(a, b) == a.num * b.den >= b.num * a.den

\* r is the largest of the quotients q(k), k in S, and 0 when S is empty
LargestOf(r, S, q(_)) ==
    /\ r.den > 0
    /\ r.num >= 0
    /\ S = {} => r.num = 0
    /\ \A k \in S : AtLeast(r, q(k))
    /\ S # {} => \E k \in S : RatioEq(r, q(k))

\* C20: every finalized trade has MAE >= 0 and MFE >= 0; for a long trade a
\* fill price below the running average entry counts only toward the adverse
\* excursion and one above it only toward the favorable excursion, and for a
\* short trade the roles are inverted: MFE is the largest favorable move over
\* the fills on the favorable side, MAE the largest adverse move over the
\* fills on the adverse side, each 0 without such a fill.
C20_Excursions ==
    \A i \in 1..Len(trades) :
        Finalized(trades[i]) =>
            LET t    == trades[i]
                n    == Len(t.fill_ids)
                favs == {k \in 1..n : FavourAt(t, k).num > 0}
                advs == {k \in 1..n : FavourAt(t, k).num < 0}
                adverse(k) == Against(FavourAt(t, k))
                favour(k)  == FavourAt(t, k)
            IN  /\ t.mae # Null /\ t.mfe # Null
                /\ LargestOf(t.mfe[1], favs, favour)
                /\ LargestOf(t.mae[1], advs, adverse)

\* C20 witness: the simple long round trip, in at 100 and out at 105: MFE is
\* 5 / 100 and MAE is 0.
C20_Witness ==
    \E i \in 1..Len(trades) :
        LET t == trades[i]
        IN  /\ Finalized(t) /\ t.side = "B"
            /\ Len(t.fill_ids) = 2
            /\ FillOf(t.fill_ids[1]).px = 100
            /\ FillOf(t.fill_ids[2]).px = 105
            /\ FillOf(t.fill_ids[1]).start_position = 0
            /\ RatioEq(t.mfe[1], Ratio(5, 100))
            /\ t.mae[1].num = 0

\* ----------------------------------------------------- instrument independence
\* the fills of one coin, in the order of the list
OfCoin(fs, c) == SelectSeq(fs, LAMBDA f : f.coin = c)

\* the trades of one coin, in the order of the trade list
TradesOf(ts, c) == SelectSeq(ts, LAMBDA t : t.coin = c)

\* a trade list without the numbers the pass gave its trades: the id counts
\* the trades of the whole pass, over all coins
Unnumbered(ts) == [i \in 1..Len(ts) |-> [ts[i] EXCEPT !.id = 0]]

\* the fills regrouped coin by coin, the coins taken in the given order
RECURSIVE Grouped(_, _)
Grouped(fs, order) ==
    IF order = <<>> THEN <<>> ELSE OfCoin(fs, Head(order)) \o Grouped(fs, Tail(order))

CoinOrders == {CoinOrder, <<CoinOrder[2], CoinOrder[1]>>}

\* a pass from scratch over fs, as far as the pass of the state has come:
\* without the emission of open trades while the stream is still running
PassOver(fs) ==
    IF phase = "run" THEN Fold(NewRun(Here), fs, 1) ELSE Aggregate(NewRun(Here), fs)

C22_Expectancy ==
    HasStats =>
        LET n  == Len(Given)
            w  == Cardinality(Winners)
            l  == Cardinality(Losers)
            sw == PnlOver(Winners)
            sl == Abs(PnlOver(Losers))
        IN  /\ Finite(Result.expectancy)
            /\ n = 0 => IsZero(Result.expectancy)
            /\ w > 0 => RatioEq(Result.avgWin, Ratio(sw, w))
            /\ w = 0 => IsZero(Result.avgWin)
            /\ l > 0 => RatioEq(Result.avgLoss, Ratio(sl, l))
            /\ l = 0 => IsZero(Result.avgLoss)
            /\ n > 0 =>
                  \* (w/n) * (sw/w) - ((n - w)/n) * (sl/l)
                  RatioEq(Result.expectancy,
                          Ratio(sw * Max2(l, 1) - (n - w) * sl, n * Max2(l, 1)))

\* C22 witness: statistics of a win of 3, a loss of 2 and a trade that broke
\* even: a third of 3 less two thirds of 2 is -1/3.
C22_Witness ==
    /\ HasStats
    /\ Len(Given) = 3
    /\ Cardinality(Winners) = 1
    /\ Cardinality(Losers) = 1
    /\ RatioEq(Result.expectancy, Ratio(-1, 3))

\* ------------------------------------------------------- best and worst trade
\* the realized pnl of the trades of the given array
GivenPnls == {Given[i].pnl : i \in 1..Len(Given)}

\* C23 (as claimed): for a non-empty list bestTrade is the largest realized
\* pnl of any single trade of the list and worstTrade the smallest; both are
\* 0 for the empty list.
C23_BestWorst ==
    HasStats =>
        /\ Given # <<>> =>
              /\ Result.bestTrade = Num(MaxOf(GivenPnls))
              /\ Result.worstTrade = Num(CHOOSE v \in GivenPnls : \A u \in GivenPnls : v <= u)
        /\ Given = <<>> => IsZero(Result.bestTrade) /\ IsZero(Result.worstTrade)

\* what the code returns instead: the largest pnl among the winning trades
\* and the smallest among the losing ones, 0 where there is no such trade
C23_BestWinWorstLoss ==
    HasStats =>
        /\ Result.bestTrade = Num(MaxOf(GivenPnls \cup {0}))
        /\ Result.worstTrade = Num(-MaxOf({-v : v \in GivenPnls} \cup {0}))

\* ----------------------------------------------------------- size conservation
\* a trade in the list that was finalized by a fill that left the position flat
FinalizedFlat(t) == Finalized(t) /\ Abs(Resulting(LastFill(t))) < EPS

\* the sizes closed and opened by the fills of a trade differ by less than
\* 1e-9, and the opened size is the trade's size (a flip fill counts with the
\* residual it opened)
Conserved(t) ==
    LET n == Len(t.fill_ids)
    IN  /\ Abs(ExitSz(t, n) - EntrySz(t, n)) < EPS
        /\ t.size = EntrySz(t, n)

\* C24 (as claimed): for every trade finalized as flat, the total size of its
\* closing fills equals the total size of its opening fills, the trade's
\* size, within 1e-9; also when the coin's first visible fill has a non-zero
\* startingPosition.
C24_SizeConservation ==
    \A i \in 1..Len(trades) : FinalizedFlat(trades[i]) => Conserved(trades[i])

\* the trade was begun from a flat position, or by a position flip
BegunFromFlat(t) == FirstFill(t).start_position = 0 \/ ~IsOpen(FirstFill(t))

\* where the sizes are conserved: in every trade finalized as flat that was
\* begun from a flat position or by a flip
C24_ConservedFromFlat ==
    \A i \in 1..Len(trades) :
        FinalizedFlat(trades[i]) /\ BegunFromFlat(trades[i]) => Conserved(trades[i])

\* ------------------------------------------------- streaks and the partition
\* C25 (as claimed): in the object computeStats returns, longestWinStreak is
\* at most wins and longestLossStreak at most losses, also for lists with
\* trades whose realized pnl is exactly 0.
C25_StreakWithinPartition ==
    HasStats =>
        /\ Result.longestWinStreak <= Result.wins
        /\ Result.longestLossStreak <= Result.losses

\* what holds on every list: the win streak is within wins, and the loss
\* streak within the trades that are not wins
C25_StreakWithinNotWins ==
    HasStats =>
        /\ Result.longestWinStreak <= Result.wins
        /\ Result.longestLossStreak <= Len(Given) - Result.wins
        /\ (\A i \in 1..Len(Given) : Given[i].pnl # 0) =>
              Result.longestLossStreak <= Result.losses

\* ----------------------------------------------------------- order of the array
\* two numbers of computeStats that are the same value
RECURSIVE Gcd(_, _)
Gcd(a, b) == IF b = 0 THEN a ELSE Gcd(b, a % b)

\* a finite number in lowest terms
Lowest(x) ==
    LET g == Gcd(Abs(x.num), x.den) IN Ratio(x.num \div g, x.den \div g)

SameNumber(a, b) == IF a.den = 0 \/ b.den = 0 THEN a = b ELSE Lowest(a) = Lowest(b)

StreakFields == {"wins", "losses", "longCount", "shortCount",
                 "longestWinStreak", "longestLossStreak"}

RootFields == {"sharpe", "sortino"}

SameField(a, b, k) ==
    IF k \in StreakFields THEN a[k] = b[k]
    ELSE IF k \in RootFields THEN a[k].sgn = b[k].sgn /\ SameNumber(a[k].sq, b[k].sq)
    ELSE SameNumber(a[k], b[k])

OrderFields == {"maxDrawdown", "longestWinStreak", "longestLossStreak"}

\* the statistics of the given array with the trades at two places exchanged
Exchanged(i, j) == computeStats(Swapped(Given, i, j))

\* C26 (as claimed): computeStats returns the same statistics for any two
\* orderings of the same trades, also when trades share an open_time: every
\* field, maxDrawdown and the two streaks among them, is the same after any
\* two trades of the array change places.
C26_OrderIndependence ==
    HasStats =>
        \A i, j \in 1..Len(Given) :
            i < j => \A k \in DOMAIN Result : SameField(Exchanged(i, j), Result, k)

\* what holds on every array: the fields that do not walk the sorted copy
\* are the same in any order, and all fields are when no two trades share an
\* open_time
C26_OrderOfTiesOnly ==
    HasStats =>
        \A i, j \in 1..Len(Given) :
            i < j =>
                /\ \A k \in DOMAIN Result \ OrderFields :
                      SameField(Exchanged(i, j), Result, k)
                /\ (\A a, b \in 1..Len(Given) :
                        a # b => Given[a].open_time # Given[b].open_time) =>
                      \A k \in OrderFields : SameField(Exchanged(i, j), Result, k)

\* ------------------------------------------------------------ trade loads
\* the requests still in flight, and those that returned trades
InFlight == {i \in 1..Len(requests) : ~requests[i].settled}

Answered == {i \in 1..Len(requests) : requests[i].settled /\ requests[i].result[1].ok}

\* no two requests are in flight together: each is issued by the mount effect
\* or by a button that is disabled while loading is true
Serialised == Cardinality(InFlight) <= 1

Settles(i) == i \in InFlight /\ requests'[i].settled

Outcome(i) == requests'[i].result[1]

\* a step in which a load or a refresh is started
Starts == Len(requests') = Len(requests) + 1

\* C28: when a load or refresh request fails, error becomes a non-null
\* message, the trades loaded before are left unchanged and loading returns
\* to false; starting a load or refresh sets loading to true and resets error
\* to null; a successful one replaces trades and leaves error null.
C28_FailedLoad ==
    [][/\ \A i \in 1..Len(requests) :
             /\ Settles(i) /\ ~Outcome(i).ok =>
                   /\ provider'.error # Null
                   /\ provider'.error[1] = Outcome(i).message
                   /\ provider'.trades = provider.trades
                   /\ ~provider'.loading
             /\ Settles(i) /\ Outcome(i).ok =>
                   /\ provider'.trades = Outcome(i).data
                   /\ provider'.error = Null
                   /\ ~provider'.loading
       /\ Starts => provider'.loading /\ provider'.error = Null]_vars

\* C28 witness: the mount load returned two trades and the refresh after it
\* failed: the two trades are still shown, with the error of the refresh.
C28_Witness ==
    /\ Len(requests) = 2
    /\ InFlight = {}
    /\ requests[1].result[1].ok /\ requests[1].result[1].data = <<1, 2>>
    /\ ~requests[2].result[1].ok
    /\ provider.trades = <<1, 2>>
    /\ provider.error = Some("API error: 500 Internal Server Error")
    /\ ~provider.loading

\* ---------------------------------------------------------------------- C30
\* from is not after to, as strings and as the days they name
InOrder(from, to) ==
    from # <<>> /\ to # <<>> => ~Less(to, from) /\ DayOfKey(from) <= DayOfKey(to)

Ordered(d) == InOrder(d.selFrom, d.selTo) /\ InOrder(d.from, d.to)

\* a step of the filter other than typing a date into an input
Picked ==
    \/ MountDateFilter \/ ToggleOpen \/ DayClick \/ ModeClick \/ GroupByClick
    \/ PresetClick \/ ApplyClick \/ ClearClick

\* C30: mounting, opening, day clicks, mode switches, preset clicks, Apply
\* and Clear keep selFrom from being after selTo whenever both are set; a day
\* click in 'before' mode leaves selFrom empty and one in 'after' mode leaves
\* selTo empty; and Apply hands onApply the selFrom, selTo and groupBy that
\* are current when it is clicked.
C30_DateSelection ==
    [][ /\ dateFilter = Null /\ MountDateFilter => Ordered(dateFilter'[1])
        /\ dateFilter # Null /\ Ordered(dateFilter[1]) /\ ~Ordered(dateFilter'[1]) => ~Picked
        /\ dateFilter # Null /\ dateFilter[1].dateMode = "before" /\ DayClick =>
              dateFilter'[1].selFrom = <<>> /\ dateFilter'[1].selTo # <<>>
        /\ dateFilter # Null /\ dateFilter[1].dateMode = "after" /\ DayClick =>
              dateFilter'[1].selTo = <<>> /\ dateFilter'[1].selFrom # <<>>
        /\ ApplyClick =>
              /\ dateFilter'[1].from = dateFilter[1].selFrom
              /\ dateFilter'[1].to = dateFilter[1].selTo
              /\ dateFilter'[1].dateGroupBy = dateFilter[1].groupBy
      ]_vars

\* a 'before' selection was applied by close time, and then a range was
\* picked whose second click, 30 September, is before its first, 13 October
C30_Witness ==
    /\ dateFilter # Null
    /\ dateFilter[1].from = <<>>
    /\ dateFilter[1].to = toKey(287)
    /\ dateFilter[1].dateGroupBy = "close"
    /\ dateFilter[1].open
    /\ dateFilter[1].dateMode = "range"
    /\ dateFilter[1].selFrom = toKey(274)
    /\ dateFilter[1].selTo = toKey(287)

\* ---------------------------------------------------------------------- C29
\* one of the side, result, coin, tag-selection and date filters differs
FilterChanged(j, k) ==
    \/ j.sideFilter # k.sideFilter
    \/ j.resultFilter # k.resultFilter
    \/ j.coinFilter # k.coinFilter
    \/ j.selectedTags # k.selectedTags
    \/ j.dateFrom # k.dateFrom
    \/ j.dateTo # k.dateTo
    \/ j.dateGroupBy # k.dateGroupBy

\* C29: in every state of the journal page (after filter, sort and tag-logic
\* changes, trade reloads, Prev and Next clicks) the displayed page number
\* is between 1 and totalPages, totalPages is the least number of pages of
\* 20 that hold the filtered list and at least 1, the displayed rows are at
\* most 20 and are not empty when the filtered list is not; and a step that
\* changes the side, result, coin, tag-selection or date filter leaves the
\* page at 1.
C29_Pagination ==
    /\ [](journal # Null =>
            LET j     == journal[1]
                n     == Len(journalFiltered(j))
                pages == totalPages(j)
                shown == currentPage(j)
                rows  == pageItems(j)
            IN  /\ 1 <= shown /\ shown <= pages
                /\ pages >= 1 /\ 20 * pages >= n
                /\ pages > 1 => 20 * (pages - 1) < n
                /\ Len(rows) <= 20
                /\ n > 0 => rows # <<>>)
    /\ [][ journal # Null /\ FilterChanged(journal[1], journal'[1]) =>
              journal'[1].page = 1 /\ currentPage(journal'[1]) = 1 ]_vars

\* after two Next clicks a refresh brought fewer trades: the kept page is 3,
\* two pages are left, and the second, with one row, is displayed
C29_Witness ==
    /\ journal # Null
    /\ journal[1].page = 3
    /\ totalPages(journal[1]) = 2
    /\ currentPage(journal[1]) = 2
    /\ Len(pageItems(journal[1])) = 1
    /\ journal[1].sortCol = "pnl"
====
